---- MODULE Spec2Model ----
(***************************************************************************)
(* State-machine model of the button catalogue application (src/app.js,    *)
(* src/icons/index.js): the SVG loader (preload with fallback, injection), *)
(* the start-up sequence of ButtonSystem.init / initializeApp, the label   *)
(* and size passes of StyleManager, the resize listener, and the           *)
(* document-level click, pointer, touch and keyboard listeners.            *)
(***************************************************************************)
EXTENDS Integers, Sequences, FiniteSets, TLC

VARIABLES
  pc,          \* position of initializeApp / ButtonSystem.init
  network,     \* asset transport: the outcomes each fetch may have
  fetchPc,     \* per icon key: position of its async loader in preloadAllIcons
  cache,       \* SVGLoader.cache: <<>> = no entry, <<m>> = entry with markup m
  cacheWrites, \* per icon key: number of cache.set calls made so far
  fetchLog,    \* per icon key: how each of its fetches and body reads ended
  nodes,       \* the icon target elements and their innerHTML
  buttons,     \* the .button elements: classes, attributes, children
  updates,     \* waitForRenderCompletion chains started by scheduleUpdate
  keyTimers,   \* per button: pending setTimeout(..., 100) of the keydown listener
  last,        \* the last input event dispatched and what its listeners did
  page,        \* per button: what markup and style sheet give it (container,
               \* visibility, computed colours, box size at scale 1)
  labels,      \* per button: innerHTML of its .label, split at '<br>'
  styleCache,  \* ButtonSystem.state.styleCache: <<>> = no entry, <<m>> = {minSide: m}
  minSide,     \* per button: its --min-side property, 0 = not set
  lastPass,    \* the last updateButtonLabels call: labels written, exception raised
  viewport,    \* the scale the window size gives the boxes
  resizeScheduled, \* the flag of the resize listener
  resizeFrames,    \* pending requestAnimationFrame callbacks of the resize listener
  resizeLog,   \* resize events since the last frame, applyDynamicStyles runs in it
  focus,       \* document.activeElement: a button or "none"
  navLast,     \* the last keydown seen by the navigation listener
  calc,        \* one call of calculateContrast: its arguments and its result
  waited,      \* the frame callbacks and timeouts that have run since the step or
               \* event that leads to the next applyDynamicStyles call
  measured     \* the last applyDynamicStyles call: what it had waited for and
               \* the buttons whose --min-side and cache entry it wrote

styleVars == <<labels, styleCache, minSide, lastPass>>

resizeVars == <<viewport, resizeScheduled, resizeFrames, resizeLog>>

navVars == <<focus, navLast>>

measureVars == <<waited, measured>>

vars == <<pc, network, fetchPc, cache, cacheWrites, fetchLog, nodes, buttons,
          updates, keyTimers, last, page, styleVars, resizeVars, navVars, calc, measureVars>>

(***************************************************************************)
(* Bounds of the model.                                                    *)
(***************************************************************************)
MaxPending == 2

MaxTimers == 2

MaxResize == 2

(***************************************************************************)
(* Icon catalogue (src/icons/index.js).  The model keeps three of the 33   *)
(* entries: an ordinary icon, the fallback icon and the excluded one.      *)
(***************************************************************************)
iconPaths ==
  [k \in {"add", "placeholder", "toggle"} |->
     CASE k = "add" -> "add.svg"
       [] k = "placeholder" -> "placeholder.svg"
       [] k = "toggle" -> "toggle.svg"]

getIconPath(iconKey) ==
  IF iconKey \in DOMAIN iconPaths
    THEN <<"./assets/icons/", iconPaths[iconKey]>>
    ELSE <<"./assets/icons/", "placeholder.svg">>

createIconMap ==
  [key \in DOMAIN iconPaths |-> [path |-> getIconPath(key), selector |-> key]]

fallbackIcon == "placeholder"

\* if (key === 'toggle') return;
excludedIcon == "toggle"

Keys == DOMAIN createIconMap

(***************************************************************************)
(* Markup.  An SVG text is modelled by the sequence of its fill / stroke   *)
(* directives: the property, the syntactic form (double-quoted attribute,  *)
(* single-quoted attribute, inline style) and the value.  '' is <<>>.      *)
(***************************************************************************)
Dir(p, f, v) == [prop |-> p, form |-> f, val |-> v]

EmptyMarkup == << >>

StaleMarkup == << Dir("fill", "dq", "#123456") >>

\* response.text() of the asset served under a path
AssetText(path) ==
  CASE path[2] = "add.svg" ->
         << Dir("fill", "dq", "#ff0000"), Dir("stroke", "sq", "none"),
            Dir("stroke", "style", "#00ff00") >>
    [] path[2] = "placeholder.svg" ->
         << Dir("fill", "sq", "Transparent"), Dir("stroke", "dq", "#0000ff"),
            Dir("fill", "style", "NONE") >>
    [] path[2] = "toggle.svg" ->
         << Dir("fill", "style", "#00ffff"), Dir("fill", "dq", "none") >>

\* the negative lookahead (?!none|transparent) under the i flag
KeptValue(v) == v \in {"none", "None", "NONE", "transparent", "Transparent", "TRANSPARENT"}

\* one .replace(/<prop><form>(?!none|transparent).../gi, '<prop>...currentColor')
ReplaceColor(svgMarkup, p, f) ==
  [i \in DOMAIN svgMarkup |->
     IF svgMarkup[i].prop = p /\ svgMarkup[i].form = f /\ ~KeptValue(svgMarkup[i].val)
       THEN Dir(p, f, "currentColor")
       ELSE svgMarkup[i]]

convertToCurrentColor(svgMarkup) ==
  ReplaceColor(ReplaceColor(ReplaceColor(ReplaceColor(ReplaceColor(ReplaceColor(
    svgMarkup, "fill", "dq"), "stroke", "dq"), "fill", "sq"), "stroke", "sq"),
    "fill", "style"), "stroke", "style")

(***************************************************************************)
(* Asset transport.  A fetch resolves with ok, resolves with a non-ok      *)
(* response, or rejects; reading the body resolves or rejects.             *)
(***************************************************************************)
FetchOutcomes == {"ok", "notok", "throw"}

BodyOutcomes == {"ok", "fail"}

AnyNetwork ==
  [k \in Keys |-> [primary |-> FetchOutcomes, body |-> BodyOutcomes,
                   fb |-> FetchOutcomes, fbBody |-> BodyOutcomes]]

\* one transport behaviour that takes every path of the loader once
ScriptedNetwork ==
  [k \in Keys |->
     CASE k = "add" -> [primary |-> {"ok"}, body |-> {"ok"}, fb |-> {"ok"}, fbBody |-> {"ok"}]
       [] k = "placeholder" -> [primary |-> {"notok"}, body |-> {"ok"}, fb |-> {"ok"}, fbBody |-> {"ok"}]
       [] k = "toggle" -> [primary |-> {"ok"}, body |-> {"fail"}, fb |-> {"throw"}, fbBody |-> {"fail"}]]

(***************************************************************************)
(* DOM.  The icon target elements and the buttons of the page.             *)
(***************************************************************************)
NodeIds == {"n1", "n2", "n3", "n4"}

\* an element: its data-icon value, el.closest('.toggle'),
\* el.classList.contains('pressed'), el.innerHTML
Node(icon, inToggle, pressed, html) ==
  [icon |-> icon, inToggle |-> inToggle, pressed |-> pressed, html |-> html]

\* document.querySelectorAll('[data-icon="<key>"]')
querySelectorAll(ns, selector) == {n \in NodeIds : ns[n].icon = selector}

\* document.querySelectorAll('.button'), in document order
ButtonOrder == <<"b1", "b2", "b3", "b4">>

Buttons == DOMAIN buttons

allButtons == SelectSeq(ButtonOrder, LAMBDA b : b \in Buttons)

InitialButton(t, d, p) ==
  [toggle |-> t, disabled |-> d, pressed |-> p, ariaPressed |-> "absent",
   isToggleButton |-> FALSE, children |-> <<"icon", "label">>, ariaWritten |-> FALSE]

\* a button's place on the page: el.closest('.showcase'), offsetParent === null,
\* the computed colour of its label, its computed background colour without
\* and with the pressed class, its box at scale 1
Placed(showcase, hidden, color, bgIdle, bgPressed, width, height) ==
  [showcase |-> showcase, hidden |-> hidden, color |-> color, bgIdle |-> bgIdle,
   bgPressed |-> bgPressed, width |-> width, height |-> height]

\* before the first applyDynamicStyles call
NoMeasure == [trigger |-> "none", waited |-> <<>>, wrote |-> {}]

NoCalc ==
  [color1 |-> [form |-> "empty", ch |-> <<>>], color2 |-> [form |-> "empty", ch |-> <<>>],
   done |-> FALSE, ok |-> FALSE, ratio |-> [num |-> 0, den |-> 1]]

NoNav == [key |-> "", from |-> "none", afterRight |-> FALSE, orig |-> "none"]

NoFetches == [primary |-> "none", body |-> "none", fb |-> "none", fbBody |-> "none"]

NoUpdates == [raf1 |-> 0, raf2 |-> 0, timer |-> 0]

NoEvent ==
  [kind |-> "none", key |-> "", button |-> "b1", prePressed |-> FALSE,
   preAria |-> "absent", blocked |-> FALSE, ran |-> 0, clicks |-> 0, sched |-> 0,
   obs |-> 0, timers |-> 0, afterClick |-> FALSE, origPressed |-> FALSE,
   origAria |-> "absent"]

(***************************************************************************)
(* SVGLoader.preloadAllIcons.  Each icon key runs its own async function:  *)
(* fetching -> reading -> done, or on any failure fbFetching -> fbReading  *)
(* -> done.  A step result names the next position and the cache.set it    *)
(* performs (<<>>: none, <<m>>: cache.set(key, m)).                        *)
(***************************************************************************)
Step(p, s) == [pc |-> p, set |-> s]

\* mutant: the loaders run one after the other (await inside a for loop)
preloadStart_Sequential ==
  [k \in Keys |-> IF k = "add" THEN "fetching" ELSE "notStarted"]

\* the .map(async ...) call runs every async function up to its first await
preloadStart == [k \in Keys |-> "fetching"]

\* mutant: the entry is pre-filled with '' before the body is read
onPrimaryResponse_Prefill(key, outcome) ==
  IF outcome = "ok" THEN Step("reading", <<EmptyMarkup>>) ELSE Step("fbFetching", <<>>)

\* const response = await fetch(config.path); if (!response.ok) throw ...
onPrimaryResponse(key, outcome) ==
  IF outcome = "ok" THEN Step("reading", <<>>) ELSE Step("fbFetching", <<>>)

\* const svgMarkup = await response.text(); this.cache.set(key, svgMarkup)
onPrimaryBody(key, outcome) ==
  IF outcome = "ok"
    THEN Step("done", <<AssetText(createIconMap[key].path)>>)
    ELSE Step("fbFetching", <<>>)

\* mutant: fallback.ok is not tested, the body of any response is cached
onFallbackResponse_NoOkCheck(key, outcome) ==
  IF outcome = "throw" THEN Step("done", <<EmptyMarkup>>) ELSE Step("fbReading", <<>>)

\* const fallback = await fetch(fallbackPath); if (fallback.ok) ... else set ''
onFallbackResponse(key, outcome) ==
  IF outcome = "ok" THEN Step("fbReading", <<>>) ELSE Step("done", <<EmptyMarkup>>)

\* mutant: no inner try / catch, a failing fallback body read rejects
onFallbackBody_NoCatch(key, outcome) ==
  IF outcome = "ok"
    THEN Step("done", <<AssetText(getIconPath(fallbackIcon))>>)
    ELSE Step("rejected", <<>>)

\* this.cache.set(key, await fallback.text()), or the inner catch: set ''
onFallbackBody(key, outcome) ==
  IF outcome = "ok"
    THEN Step("done", <<AssetText(getIconPath(fallbackIcon))>>)
    ELSE Step("done", <<EmptyMarkup>>)

\* mutant: loadAndInject does not await preloadAllIcons
preloadResolved_NoAwait == TRUE

\* await Promise.all(loadPromises) resolves
preloadResolved == \A k \in Keys : fetchPc[k] = "done"

\* await Promise.all(loadPromises) rejects
preloadRejected == \E k \in Keys : fetchPc[k] = "rejected"

\* mutant: the cached markup is injected without convertToCurrentColor
injectAllIcons_Raw(ns, c) ==
  [n \in NodeIds |->
     LET hits == {key \in Keys :
                    /\ key # excludedIcon
                    /\ c[key] # <<>>
                    /\ c[key][1] # EmptyMarkup
                    /\ n \in querySelectorAll(ns, createIconMap[key].selector)
                    /\ ~(ns[n].inToggle /\ ns[n].pressed)}
     IN  IF hits = {} THEN ns[n]
         ELSE [ns[n] EXCEPT !.html = c[CHOOSE key \in hits : TRUE][1]]]

\* Object.entries(this.iconMap): the keys in the order of iconPaths
IconOrder == <<"add", "placeholder", "toggle">>

\* mutant: a selector without targets raises instead of being logged
injectKey_ThrowOnEmpty(ns, c, key) ==
  IF key = excludedIcon \/ c[key] = <<>> \/ c[key][1] = EmptyMarkup
    THEN [ns |-> ns, ok |-> TRUE]
    ELSE LET targets == querySelectorAll(ns, createIconMap[key].selector)
         IN  [ns |-> [n \in NodeIds |->
                       IF n \in targets /\ ~(ns[n].inToggle /\ ns[n].pressed)
                         THEN [ns[n] EXCEPT !.html = convertToCurrentColor(c[key][1])]
                         ELSE ns[n]],
              ok |-> targets # {}]

\* the callback of Object.entries(this.iconMap).forEach, for one key: the
\* targets afterwards and whether the callback returned normally
injectKey(ns, c, key) ==
  IF key = excludedIcon \/ c[key] = <<>> \/ c[key][1] = EmptyMarkup
    THEN [ns |-> ns, ok |-> TRUE]
    ELSE LET targets == querySelectorAll(ns, createIconMap[key].selector)
         IN  [ns |-> [n \in NodeIds |->
                       IF n \in targets /\ ~(ns[n].inToggle /\ ns[n].pressed)
                         THEN [ns[n] EXCEPT !.html = convertToCurrentColor(c[key][1])]
                         ELSE ns[n]],
              ok |-> TRUE]

\* the forEach of injectAllIcons from the i-th key on; an exception ends it
RECURSIVE injectFrom(_, _, _)
injectFrom(ns, c, i) ==
  IF i > Len(IconOrder)
    THEN [ns |-> ns, ok |-> TRUE]
    ELSE LET r == injectKey(ns, c, IconOrder[i])
         IN  IF r.ok THEN injectFrom(r.ns, c, i + 1) ELSE r

\* SVGLoader.injectAllIcons: the icon targets afterwards
injectAllIcons(ns, c) == injectFrom(ns, c, 1).ns

\* SVGLoader.injectAllIcons returns normally
injectAllIconsReturns(ns, c) == injectFrom(ns, c, 1).ok

LoaderStep(k, stage, o, r) ==
  /\ fetchPc' = [fetchPc EXCEPT ![k] = r.pc]
  /\ fetchLog' = [fetchLog EXCEPT ![k][stage] = o]
  /\ cache' = IF r.set = <<>> THEN cache ELSE [cache EXCEPT ![k] = r.set]
  /\ cacheWrites' = IF r.set = <<>> THEN cacheWrites
                    ELSE [cacheWrites EXCEPT ![k] = @ + 1]
  /\ UNCHANGED <<pc, network, nodes, buttons, updates, keyTimers, last,
                 page, styleVars, resizeVars, navVars, calc, measureVars>>

\* initializeApp calls ButtonSystem.init, which calls SVGLoader.loadAndInject
StartPreload ==
  /\ pc = "init"
  /\ pc' = "preload"
  /\ fetchPc' = preloadStart
  /\ UNCHANGED <<network, cache, cacheWrites, fetchLog, nodes, buttons, updates,
                 keyTimers, last,
                 page, styleVars, resizeVars, navVars, calc, measureVars>>

PrimaryResponse(k) ==
  /\ fetchPc[k] = "fetching"
  /\ \E o \in network[k].primary : LoaderStep(k, "primary", o, onPrimaryResponse(k, o))

PrimaryBody(k) ==
  /\ fetchPc[k] = "reading"
  /\ \E o \in network[k].body : LoaderStep(k, "body", o, onPrimaryBody(k, o))

FallbackResponse(k) ==
  /\ fetchPc[k] = "fbFetching"
  /\ \E o \in network[k].fb : LoaderStep(k, "fb", o, onFallbackResponse(k, o))

FallbackBody(k) ==
  /\ fetchPc[k] = "fbReading"
  /\ \E o \in network[k].fbBody : LoaderStep(k, "fbBody", o, onFallbackBody(k, o))

\* mutant: the catch block of initializeApp logs and does not throw again
onInitError_Swallowed == "bind"

\* try { await ButtonSystem.init(); } catch (error) { console.error(...);
\* throw error; }: where initializeApp goes when init rejects
onInitError == "failed"

\* loadAndInject resumes after await this.preloadAllIcons()
InjectAfterPreload ==
  /\ pc = "preload"
  /\ preloadResolved \/ preloadRejected
  /\ IF preloadRejected
       THEN pc' = onInitError /\ nodes' = nodes
       ELSE /\ pc' = IF injectAllIconsReturns(nodes, cache) THEN "setupRaf1"
                     ELSE onInitError
            /\ nodes' = injectAllIcons(nodes, cache)
  /\ waited' = <<>>
  /\ UNCHANGED <<network, fetchPc, cache, cacheWrites, fetchLog, buttons, updates,
                 keyTimers, last,
                 page, styleVars, resizeVars, navVars, calc, measured>>

(***************************************************************************)
(* Colours and contrast.  A computed colour is modelled by its syntactic   *)
(* form and its channels; numbers are fixed-point: a linearised channel    *)
(* and a luminance are scaled by 10^5, a displayed ratio by 100.           *)
(***************************************************************************)
Rgb(r, g, b) == [form |-> "rgb", ch |-> <<r, g, b>>]

\* a colour in a notation getRGB has no rule for, e.g. 'oklch(0.7 0.1 200)'
Unparsed == [form |-> "other", ch |-> <<>>]

\* '#' followed by the hexadecimal digits given
Hex(digits) == [form |-> "hex", ch |-> digits]

Transparent == [form |-> "transparent", ch |-> <<>>]

Black == Rgb(0, 0, 0)

Grey == Rgb(128, 128, 128)

White == Rgb(255, 255, 255)

\* getRGB of calculateContrast: the channels, or ok = FALSE when it throws
getRGB(color) ==
  IF color.form \in {"empty", "transparent"}
    THEN [ok |-> FALSE, rgb |-> <<>>]
    ELSE IF color.form \in {"rgb", "rgba"}
      THEN [ok |-> TRUE, rgb |-> color.ch]
      ELSE IF color.form = "hex" /\ Len(color.ch) >= 6
        THEN [ok |-> TRUE, rgb |-> <<16 * color.ch[1] + color.ch[2],
                                     16 * color.ch[3] + color.ch[4],
                                     16 * color.ch[5] + color.ch[6]>>]
        ELSE [ok |-> FALSE, rgb |-> <<>>]

\* c / 255 <= 0.03928 ? c / 12.92 : Math.pow((c + 0.055) / 1.055, 2.4)
linearChannel(c) ==
  IF c <= 10
    THEN (c * 10000000 + 164730) \div 329460
    ELSE CASE c = 64 -> 5127
           [] c = 128 -> 21586
           [] c = 192 -> 52712
           [] c = 255 -> 100000

getLuminance(rgb) ==
  (2126 * linearChannel(rgb[1]) + 7152 * linearChannel(rgb[2])
     + 722 * linearChannel(rgb[3])) \div 10000

Max(x, y) == IF x >= y THEN x ELSE y

Min(x, y) == IF x <= y THEN x ELSE y

\* mutant: the luminances are divided in the order given
calculateContrastRGBA_Ordered(rgb1, rgb2) ==
  [num |-> getLuminance(rgb1) + 5000, den |-> getLuminance(rgb2) + 5000]

\* (brightest + 0.05) / (darkest + 0.05), as a fraction
calculateContrastRGBA(rgb1, rgb2) ==
  LET lum1 == getLuminance(rgb1)
      lum2 == getLuminance(rgb2)
  IN  [num |-> Max(lum1, lum2) + 5000, den |-> Min(lum1, lum2) + 5000]

\* calculateContrast: the ratio, or ok = FALSE when getRGB throws
calculateContrast(color1, color2) ==
  LET c1 == getRGB(color1)
      c2 == getRGB(color2)
  IN  IF c1.ok /\ c2.ok
        THEN [ok |-> TRUE, ratio |-> calculateContrastRGBA(c1.rgb, c2.rgb)]
        ELSE [ok |-> FALSE, ratio |-> [num |-> 0, den |-> 1]]

\* contrast.toFixed(2), in hundredths
toFixed2(ratio) == (200 * ratio.num + ratio.den) \div (2 * ratio.den)

(***************************************************************************)
(* StyleManager.updateButtonLabels and applyDynamicStyles.                 *)
(***************************************************************************)
\* getComputedStyle(button).backgroundColor
backgroundColor(bs, pg, b) == IF bs[b].pressed THEN pg[b].bgPressed ELSE pg[b].bgIdle

\* button.querySelector('.label')
hasLabel(btn) == \E i \in DOMAIN btn.children : btn.children[i] = "label"

\* the callback of allButtons.forEach in updateButtonLabels, for one button
labelStep(bs, pg, r, b) ==
  IF ~hasLabel(bs[b])
    THEN r
    ELSE LET contrast == calculateContrast(pg[b].color, backgroundColor(bs, pg, b))
         IN  IF ~contrast.ok
               THEN [r EXCEPT !.raised = TRUE]
               ELSE [labels |-> [r.labels EXCEPT
                                   ![b] = <<Head(@), toFixed2(contrast.ratio)>>],
                     written |-> r.written \cup {b}, raised |-> FALSE]

\* the forEach from the i-th button on; an exception ends it
RECURSIVE labelsFrom(_, _, _, _)
labelsFrom(bs, pg, r, i) ==
  LET order == SelectSeq(ButtonOrder, LAMBDA b : b \in DOMAIN bs)
  IN  IF i > Len(order) \/ r.raised
        THEN r
        ELSE labelsFrom(bs, pg, labelStep(bs, pg, r, order[i]), i + 1)

\* StyleManager.updateButtonLabels: the labels afterwards, the buttons whose
\* label was written, and whether the call raised
updateButtonLabels(bs, pg, lb) ==
  labelsFrom(bs, pg, [labels |-> lb, written |-> {}, raised |-> FALSE], 1)

\* what one updateButtonLabels call did: the buttons with a label whose two
\* colours getRGB accepts, the labels it wrote, whether it raised
PassRecord(bs, pg, r) ==
  [ran |-> TRUE,
   parseable |-> {b \in DOMAIN bs :
                    /\ hasLabel(bs[b])
                    /\ calculateContrast(pg[b].color, backgroundColor(bs, pg, b)).ok},
   written |-> r.written, raised |-> r.raised]

\* n calls of StyleManager.scheduleUpdate in one task: each starts its own
\* waitForRenderCompletion
scheduleUpdate(u, n) == [u EXCEPT !.raf1 = @ + n]

\* the DOM writes of a label update and of the size writes: innerHTML of the
\* label of each button in written, the style attribute of each button in wrote
writeRecords(written, wrote) ==
  {[target |-> "label", type |-> "childList", attr |-> ""] : b \in written}
    \cup {[target |-> "button", type |-> "attributes", attr |-> "style"] : b \in wrote}

\* mutant: the buttons are observed with childList and subtree as well
observed_Subtree(rec) ==
  rec.target \in {"button", "label"} \/ (rec.target = "documentElement" /\ rec.attr = "style")

\* setupUpdateManager: the records the observer is given and its callback
\* counts: class changes of a button, style changes of the document element
observed(rec) ==
  /\ rec.type = "attributes"
  /\ \/ rec.target = "button" /\ rec.attr = "class"
     \/ rec.target = "documentElement" /\ rec.attr = "style"

\* the scheduleUpdate calls of the observer callback for a batch of records
observerCallback(records) == IF \E rec \in records : observed(rec) THEN 1 ELSE 0

\* Math.min(rect.width, rect.height) of button.getBoundingClientRect()
measuredMinSide(pg, vp, b) ==
  IF pg[b].hidden THEN 0 ELSE Min(pg[b].width * vp, pg[b].height * vp)

\* mutant: a button without cache entry always counts as changed
needsUpdate_NoDefault(pg, vp, sc, b) ==
  sc[b] = <<>> \/ sc[b][1] # measuredMinSide(pg, vp, b)

\* (cached.minSide || 0) !== minSide
needsUpdate(pg, vp, sc, b) ==
  (IF sc[b] = <<>> THEN 0 ELSE sc[b][1]) # measuredMinSide(pg, vp, b)

\* StyleManager.applyDynamicStyles: the cache, the --min-side properties and
\* what its updateButtonLabels call did
applyDynamicStyles(bs, pg, vp, sc, ms, lb) ==
  [styleCache |-> [b \in DOMAIN bs |->
                     IF needsUpdate(pg, vp, sc, b)
                       THEN <<measuredMinSide(pg, vp, b)>> ELSE sc[b]],
   minSide |-> [b \in DOMAIN bs |->
                  IF needsUpdate(pg, vp, sc, b)
                    THEN measuredMinSide(pg, vp, b) ELSE ms[b]],
   wrote |-> {b \in DOMAIN bs : needsUpdate(pg, vp, sc, b)},
   pass |-> updateButtonLabels(bs, pg, lb)]

(***************************************************************************)
(* Start-up after the icons: StyleManager.setupIconInjection (behind a     *)
(* render wait), applyDynamicStyles, setupUpdateManager, and then the      *)
(* listeners of initializeApp.                                             *)
(***************************************************************************)
\* mutant: the new span always goes before button.firstChild
InsertPressedSlot_AtFront(children) == <<"iconPressed">> \o children

\* button.insertBefore(iconPressedSpan, iconEl), or before button.firstChild
InsertPressedSlot(children) ==
  IF \E i \in DOMAIN children : children[i] = "icon"
    THEN LET at == CHOOSE i \in DOMAIN children :
                     /\ children[i] = "icon"
                     /\ \A j \in 1..(i - 1) : children[j] # "icon"
         IN  SubSeq(children, 1, at - 1) \o <<"iconPressed">>
               \o SubSeq(children, at, Len(children))
    ELSE <<"iconPressed">> \o children

\* the body of the for loop of setupIconInjection, for one button
setupIconInjection(btn) ==
  IF btn.toggle
    THEN [btn EXCEPT
            !.children = IF \E i \in DOMAIN btn.children : btn.children[i] = "iconPressed"
                           THEN btn.children ELSE InsertPressedSlot(btn.children),
            !.isToggleButton = TRUE,
            !.ariaPressed = IF btn.pressed THEN "true" ELSE "false",
            !.ariaWritten = TRUE]
    ELSE btn

\* requestAnimationFrame callbacks run: every render wait moves one stage on,
\* and the callbacks of the resize listener call applyDynamicStyles
AnimationFrame ==
  /\ pc \in {"setupRaf1", "setupRaf2"} \/ updates.raf1 + updates.raf2 > 0
       \/ resizeFrames > 0
  /\ pc' = CASE pc = "setupRaf1" -> "setupRaf2"
             [] pc = "setupRaf2" -> "setupTimer"
             [] OTHER -> pc
  /\ LET shifted == [raf1 |-> 0, raf2 |-> updates.raf1,
                     timer |-> updates.timer + updates.raf2]
         r == applyDynamicStyles(buttons, page, viewport, styleCache, minSide, labels)
     IN  updates' = IF resizeFrames > 0
                      THEN scheduleUpdate(shifted,
                             observerCallback(writeRecords(r.pass.written, r.wrote)))
                      ELSE shifted
  /\ waited' = IF pc \in {"setupRaf1", "setupRaf2"} \/ resizeFrames > 0
                 THEN Append(waited, "frame") ELSE waited
  /\ IF resizeFrames > 0
       THEN LET r == applyDynamicStyles(buttons, page, viewport, styleCache, minSide,
                                        labels)
            IN  /\ styleCache' = r.styleCache
                /\ minSide' = r.minSide
                /\ labels' = r.pass.labels
                /\ lastPass' = PassRecord(buttons, page, r.pass)
                /\ resizeScheduled' = IF r.pass.raised THEN resizeScheduled ELSE FALSE
                /\ measured' = [trigger |-> "resize", waited |-> waited',
                                wrote |-> r.wrote]
       ELSE UNCHANGED <<styleVars, resizeScheduled, measured>>
  /\ resizeFrames' = 0
  /\ resizeLog' = [events |-> 0, served |-> resizeLog.events, runs |-> resizeFrames]
  /\ UNCHANGED <<network, fetchPc, cache, cacheWrites, fetchLog, nodes, buttons,
                 keyTimers, last, page, viewport, navVars, calc>>

\* the 16 ms timeout of setupIconInjection's render wait fires
SetupIconInjection ==
  /\ pc = "setupTimer"
  /\ pc' = "styles"
  /\ buttons' = [b \in Buttons |-> setupIconInjection(buttons[b])]
  /\ waited' = Append(waited, "timeout")
  /\ UNCHANGED <<network, fetchPc, cache, cacheWrites, fetchLog, nodes, updates,
                 keyTimers, last,
                 page, styleVars, resizeVars, navVars, calc, measured>>

\* this.StyleManager.applyDynamicStyles() of ButtonSystem.init; an exception
\* rejects init, and initializeApp logs and throws it again
ApplyInitialStyles ==
  /\ pc = "styles"
  /\ LET r == applyDynamicStyles(buttons, page, viewport, styleCache, minSide, labels)
     IN  /\ pc' = IF r.pass.raised THEN onInitError ELSE "observe"
         /\ styleCache' = r.styleCache
         /\ minSide' = r.minSide
         /\ labels' = r.pass.labels
         /\ lastPass' = PassRecord(buttons, page, r.pass)
         /\ measured' = [trigger |-> "startup", waited |-> waited, wrote |-> r.wrote]
  /\ UNCHANGED <<network, fetchPc, cache, cacheWrites, fetchLog, nodes, buttons,
                 updates, keyTimers, last, page, resizeVars, navVars, calc, waited>>

\* this.StyleManager.setupUpdateManager(): the MutationObserver is installed
SetupUpdateManager ==
  /\ pc = "observe"
  /\ pc' = "bind"
  /\ UNCHANGED <<network, fetchPc, cache, cacheWrites, fetchLog, nodes, buttons,
                 updates, keyTimers, last,
                 page, styleVars, resizeVars, navVars, calc, measureVars>>

\* initializeApp resumes after await ButtonSystem.init(): addEventListener calls
BindHandlers ==
  /\ pc = "bind"
  /\ pc' = "running"
  /\ UNCHANGED <<network, fetchPc, cache, cacheWrites, fetchLog, nodes, buttons,
                 updates, keyTimers, last,
                 page, styleVars, resizeVars, navVars, calc, measureVars>>

\* mutant: the addEventListener calls come before await ButtonSystem.init()
handlersBound_BeforeInit == TRUE

\* the listeners of initializeApp exist: its addEventListener calls follow
\* await ButtonSystem.init()
handlersBound == pc = "running"

(***************************************************************************)
(* The listeners.  Each returns what the dispatch did to the button: the   *)
(* button afterwards, the scheduleUpdate calls made by the listener        *)
(* itself, whether classList.add / remove was called (a mutation record    *)
(* for the observer), whether the capture-phase blocker stopped the event, *)
(* how often the bubble-phase click listener was entered, how many click   *)
(* events were dispatched, and how many timeouts were set.                 *)
(***************************************************************************)
Effect(btn, sched, mutated, blocked, ran, clicks, timer) ==
  [btn |-> btn, sched |-> sched, mutated |-> mutated, blocked |-> blocked,
   ran |-> ran, clicks |-> clicks, timer |-> timer]

\* mutant: the capture-phase listener lets every click through
blockDisabledButtonEvents_Never(btn) == FALSE

\* document.addEventListener('click', blockDisabledButtonEvents, true)
blockDisabledButtonEvents(btn) == btn.disabled

\* mutant: the wasPressed branch writes aria-pressed 'true'
toggleClickListener_StaleAria(btn) ==
  IF btn.disabled \/ ~btn.isToggleButton
    THEN Effect(btn, 0, FALSE, FALSE, 1, 1, 0)
    ELSE IF btn.pressed
      THEN Effect([btn EXCEPT !.pressed = FALSE, !.ariaPressed = "true",
                              !.ariaWritten = TRUE], 1, TRUE, FALSE, 1, 1, 0)
      ELSE Effect([btn EXCEPT !.pressed = TRUE, !.ariaPressed = "true",
                              !.ariaWritten = TRUE], 1, TRUE, FALSE, 1, 1, 0)

\* document.addEventListener('click', ..., false): the toggle listener
toggleClickListener(btn) ==
  IF btn.disabled \/ ~btn.isToggleButton
    THEN Effect(btn, 0, FALSE, FALSE, 1, 1, 0)
    ELSE IF btn.pressed
      THEN Effect([btn EXCEPT !.pressed = FALSE, !.ariaPressed = "false",
                              !.ariaWritten = TRUE], 1, TRUE, FALSE, 1, 1, 0)
      ELSE Effect([btn EXCEPT !.pressed = TRUE, !.ariaPressed = "true",
                              !.ariaWritten = TRUE], 1, TRUE, FALSE, 1, 1, 0)

\* one click event whose target lies in btn: capture phase, then bubble phase
dispatchClick(btn) ==
  IF blockDisabledButtonEvents(btn)
    THEN Effect(btn, 0, FALSE, TRUE, 0, 1, 0)
    ELSE toggleClickListener(btn)

ActivationKeys == {" ", "Enter", "NumpadEnter"}

\* mutant: no branch for toggle buttons, every button is pressed and released
keydownActivateListener_NoToggleBranch(key, btn) ==
  IF key \notin ActivationKeys
    THEN Effect(btn, 0, FALSE, FALSE, 0, 0, 0)
    ELSE IF btn.disabled
      THEN Effect(btn, 0, FALSE, TRUE, 0, 0, 0)
      ELSE Effect([btn EXCEPT !.pressed = TRUE], 0, TRUE, FALSE, 0, 0, 1)

\* document.addEventListener('keydown', ..., true): a keydown with its target in btn
keydownActivateListener(key, btn) ==
  IF key \notin ActivationKeys
    THEN Effect(btn, 0, FALSE, FALSE, 0, 0, 0)
    ELSE IF btn.disabled
      THEN Effect(btn, 0, FALSE, TRUE, 0, 0, 0)
      ELSE IF btn.toggle
        THEN dispatchClick(btn)
        ELSE Effect([btn EXCEPT !.pressed = TRUE], 0, TRUE, FALSE, 0, 0, 1)

\* mutant: the timeout callback dispatches the click and leaves the class
keydownTimeout_NoRelease(btn) ==
  LET click == dispatchClick(btn)
  IN  [click EXCEPT !.mutated = FALSE]

\* the setTimeout(..., 100) callback of the keydown listener
keydownTimeout(btn) ==
  LET released == [btn EXCEPT !.pressed = FALSE]
      click == dispatchClick(released)
  IN  [click EXCEPT !.mutated = TRUE]

\* mutant: mousedown does not exclude toggle buttons
mousedownListener_NoToggleCheck(btn) ==
  IF ~btn.disabled
    THEN Effect([btn EXCEPT !.pressed = TRUE], 0, TRUE, FALSE, 0, 0, 0)
    ELSE Effect(btn, 0, FALSE, FALSE, 0, 0, 0)

\* document.addEventListener('mousedown', ..., true) and the five like it
mousedownListener(btn) ==
  IF ~btn.disabled /\ ~btn.toggle
    THEN Effect([btn EXCEPT !.pressed = TRUE], 0, TRUE, FALSE, 0, 0, 0)
    ELSE Effect(btn, 0, FALSE, FALSE, 0, 0, 0)

mouseupListener(btn) ==
  IF btn.pressed /\ ~btn.toggle
    THEN Effect([btn EXCEPT !.pressed = FALSE], 1, TRUE, FALSE, 0, 0, 0)
    ELSE Effect(btn, 0, FALSE, FALSE, 0, 0, 0)

\* mutant: mouseleave calls scheduleUpdate whether or not the class was there
mouseleaveListener_NoPressedCheck(btn) ==
  IF ~btn.toggle
    THEN Effect([btn EXCEPT !.pressed = FALSE], 1, btn.pressed, FALSE, 0, 0, 0)
    ELSE Effect(btn, 0, FALSE, FALSE, 0, 0, 0)

mouseleaveListener(btn) ==
  IF btn.pressed /\ ~btn.toggle
    THEN Effect([btn EXCEPT !.pressed = FALSE], 1, TRUE, FALSE, 0, 0, 0)
    ELSE Effect(btn, 0, FALSE, FALSE, 0, 0, 0)

\* mutant: touchstart does not test aria-disabled
touchstartListener_NoDisabledCheck(btn) ==
  IF ~btn.toggle
    THEN Effect([btn EXCEPT !.pressed = TRUE], 0, TRUE, FALSE, 0, 0, 0)
    ELSE Effect(btn, 0, FALSE, FALSE, 0, 0, 0)

touchstartListener(btn) ==
  IF ~btn.disabled /\ ~btn.toggle
    THEN Effect([btn EXCEPT !.pressed = TRUE], 0, TRUE, FALSE, 0, 0, 0)
    ELSE Effect(btn, 0, FALSE, FALSE, 0, 0, 0)

touchendListener(btn) ==
  IF btn.pressed /\ ~btn.toggle
    THEN Effect([btn EXCEPT !.pressed = FALSE], 1, TRUE, FALSE, 0, 0, 0)
    ELSE Effect(btn, 0, FALSE, FALSE, 0, 0, 0)

touchcancelListener(btn) ==
  IF btn.pressed /\ ~btn.toggle
    THEN Effect([btn EXCEPT !.pressed = FALSE], 1, TRUE, FALSE, 0, 0, 0)
    ELSE Effect(btn, 0, FALSE, FALSE, 0, 0, 0)

\* the MutationObserver callback of setupUpdateManager, run at the end of the
\* task: one scheduleUpdate call if any record is a class change of a button
observerCalls(mutated) == IF mutated THEN 1 ELSE 0

\* One task: the listeners of one event (or one timeout callback), then the
\* observer callback.  Every scheduleUpdate call starts a render wait.
Task(kind, key, b, e, firedTimer) ==
  /\ handlersBound
  /\ updates.raf1 + updates.raf2 + updates.timer + e.sched + observerCalls(e.mutated)
       <= MaxPending
  /\ keyTimers[b] - firedTimer + e.timer <= MaxTimers
  /\ buttons' = [buttons EXCEPT ![b] = e.btn]
  /\ updates' = scheduleUpdate(updates, e.sched + observerCalls(e.mutated))
  /\ keyTimers' = [keyTimers EXCEPT ![b] = @ - firedTimer + e.timer]
  /\ LET follows == last.kind = "click" /\ last.button = b
     IN  last' = [kind |-> kind, key |-> key, button |-> b,
                  prePressed |-> buttons[b].pressed,
                  preAria |-> buttons[b].ariaPressed, blocked |-> e.blocked,
                  ran |-> e.ran, clicks |-> e.clicks, sched |-> e.sched,
                  obs |-> observerCalls(e.mutated), timers |-> e.timer,
                  afterClick |-> follows,
                  origPressed |-> IF follows THEN last.prePressed ELSE FALSE,
                  origAria |-> IF follows THEN last.preAria ELSE "absent"]
  /\ UNCHANGED <<pc, network, fetchPc, cache, cacheWrites, fetchLog, nodes,
                 page, styleVars, resizeVars, navVars, calc, measureVars>>

Click(b) == Task("click", "", b, dispatchClick(buttons[b]), 0)

Keydown(key, b) == Task("keydown", key, b, keydownActivateListener(key, buttons[b]), 0)

KeydownTimeout(b) ==
  /\ keyTimers[b] > 0
  /\ Task("keytimeout", "", b, keydownTimeout(buttons[b]), 1)

MouseDown(b) == Task("mousedown", "", b, mousedownListener(buttons[b]), 0)

MouseUp(b) == Task("mouseup", "", b, mouseupListener(buttons[b]), 0)

MouseLeave(b) == Task("mouseleave", "", b, mouseleaveListener(buttons[b]), 0)

TouchStart(b) == Task("touchstart", "", b, touchstartListener(buttons[b]), 0)

TouchEnd(b) == Task("touchend", "", b, touchendListener(buttons[b]), 0)

TouchCancel(b) == Task("touchcancel", "", b, touchcancelListener(buttons[b]), 0)

\* the 16 ms timeout of a scheduleUpdate render wait fires: the .then callback
\* calls updateButtonLabels (an exception there is an unhandled rejection)
UpdateTimeout ==
  /\ updates.timer > 0
  /\ LET r == updateButtonLabels(buttons, page, labels)
     IN  /\ labels' = r.labels
         /\ lastPass' = PassRecord(buttons, page, r)
         /\ updates' = scheduleUpdate([updates EXCEPT !.timer = @ - 1],
                                      observerCallback(writeRecords(r.written, {})))
  /\ UNCHANGED <<pc, network, fetchPc, cache, cacheWrites, fetchLog, nodes, buttons,
                 keyTimers, last, page, styleCache, minSide, resizeVars, navVars, calc, measureVars>>

\* window.addEventListener("resize", ...): the flag afterwards and the number
\* of requestAnimationFrame calls made
resizeListener(scheduled) ==
  IF scheduled
    THEN [scheduled |-> TRUE, requests |-> 0]
    ELSE [scheduled |-> TRUE, requests |-> 1]

\* the window is resized to scale vp: one resize event
Resize(vp) ==
  /\ handlersBound
  /\ resizeLog.events < MaxResize
  /\ viewport' = vp
  /\ LET r == resizeListener(resizeScheduled)
     IN  /\ resizeScheduled' = r.scheduled
         /\ resizeFrames' = resizeFrames + r.requests
         /\ waited' = IF r.requests > 0 THEN <<>> ELSE waited
  /\ resizeLog' = [resizeLog EXCEPT !.events = @ + 1]
  /\ UNCHANGED <<pc, network, fetchPc, cache, cacheWrites, fetchLog, nodes, buttons,
                 updates, keyTimers, last, page, styleVars, navVars, calc, measured>>

(***************************************************************************)
(* Keyboard navigation: the second keydown listener.  Positions in a list  *)
(* are counted from 1; "none" stands for null.                             *)
(***************************************************************************)
NavKeys == {"ArrowDown", "ArrowUp", "ArrowRight", "ArrowLeft", "Home", "End"}

\* Array.from(document.querySelectorAll('.button')).filter(btn => btn.offsetParent !== null)
visibleButtons(pg) == SelectSeq(allButtons, LAMBDA b : ~pg[b].hidden)

\* list.indexOf(x) + 1, so 0 when x is not in the list
IndexOf(list, x) ==
  IF \E i \in DOMAIN list : list[i] = x
    THEN CHOOSE i \in DOMAIN list : list[i] = x /\ \A j \in 1..(i - 1) : list[j] # x
    ELSE 0

\* list[(currentIndex + i) % list.length] for the 0-based currentIndex = cur - 1
At(list, cur, i) == list[((cur - 1 + i) % Len(list)) + 1]

\* case 'ArrowRight'
arrowRightTarget(list, cur) == At(list, cur, 1)

\* mutant: ArrowLeft does not wrap around at the first button
arrowLeftTarget_NoWrap(list, cur) == IF cur = 1 THEN "none" ELSE list[cur - 1]

\* case 'ArrowLeft'
arrowLeftTarget(list, cur) == IF cur = 1 THEN list[Len(list)] ELSE list[cur - 1]

\* mutant: ArrowDown takes the next button whatever its container
arrowDownTarget_Next(pg, list, cur) == At(list, cur, 1)

\* case 'ArrowDown': the for loop, left at the first button of another container
arrowDownTarget(pg, list, cur) ==
  LET found == {i \in 1..(Len(list) - 1) :
                  pg[At(list, cur, i)].showcase # pg[list[cur]].showcase}
  IN  IF found = {}
        THEN "none"
        ELSE At(list, cur, CHOOSE i \in found : \A j \in found : i <= j)

\* mutant: ArrowUp takes the button found, not the first one of its container
arrowUpTarget_Nearest(pg, list, cur) ==
  LET found == {i \in 1..(Len(list) - 1) :
                  pg[At(list, cur, Len(list) - i)].showcase # pg[list[cur]].showcase}
  IN  IF found = {}
        THEN "none"
        ELSE At(list, cur, Len(list) - (CHOOSE i \in found : \A j \in found : i <= j))

\* case 'ArrowUp': the for loop, then the first button of the container found
arrowUpTarget(pg, list, cur) ==
  LET found == {i \in 1..(Len(list) - 1) :
                  pg[At(list, cur, Len(list) - i)].showcase # pg[list[cur]].showcase}
  IN  IF found = {}
        THEN "none"
        ELSE LET prevButton ==
                   At(list, cur, Len(list) - (CHOOSE i \in found : \A j \in found : i <= j))
                 buttonsInPrevContainer ==
                   SelectSeq(list, LAMBDA b : pg[b].showcase = pg[prevButton].showcase)
             IN  buttonsInPrevContainer[1]

\* element.focus(): an element that is not rendered does not take the focus
focusCall(pg, target, f) ==
  IF target = "none" \/ pg[target].hidden THEN f ELSE target

\* document.addEventListener('keydown', ..., true), the navigation listener:
\* document.activeElement afterwards
navigationListener(key, pg, f) ==
  IF f = "none"
    THEN IF key \in NavKeys /\ Len(allButtons) > 0
           THEN focusCall(pg, allButtons[1], f)
           ELSE f
    ELSE LET list == visibleButtons(pg)
             cur == IndexOf(list, f)
         IN  IF Len(list) = 0 \/ cur = 0
               THEN f
               ELSE focusCall(pg,
                      CASE key = "ArrowRight" -> arrowRightTarget(list, cur)
                        [] key = "ArrowLeft" -> arrowLeftTarget(list, cur)
                        [] key = "ArrowDown" -> arrowDownTarget(pg, list, cur)
                        [] key = "ArrowUp" -> arrowUpTarget(pg, list, cur)
                        [] key = "Home" -> list[1]
                        [] key = "End" -> list[Len(list)]
                        [] OTHER -> "none",
                      f)

\* one keydown event, seen by the navigation listener
NavKeydown(key) ==
  /\ handlersBound
  /\ focus' = navigationListener(key, page, focus)
  /\ LET follows == navLast.key = "ArrowRight" /\ navLast.from # "none"
     IN  navLast' = [key |-> key, from |-> focus, afterRight |-> follows,
                     orig |-> IF follows THEN navLast.from ELSE "none"]
  /\ UNCHANGED <<pc, network, fetchPc, cache, cacheWrites, fetchLog, nodes, buttons,
                 updates, keyTimers, last, page, styleVars, resizeVars, calc, measureVars>>

\* the user moves the focus (Tab, pointer) to a rendered button or off the buttons
FocusChange(f) ==
  /\ pc = "running"
  /\ f # focus
  /\ IF f = "none" THEN TRUE ELSE ~page[f].hidden
  /\ focus' = f
  /\ navLast' = NoNav
  /\ UNCHANGED <<pc, network, fetchPc, cache, cacheWrites, fetchLog, nodes, buttons,
                 updates, keyTimers, last, page, styleVars, resizeVars, calc, measureVars>>

\* one call StyleManager.calculateContrast(color1, color2)
CalculateContrast ==
  /\ ~calc.done
  /\ LET r == calculateContrast(calc.color1, calc.color2)
     IN  calc' = [calc EXCEPT !.done = TRUE, !.ok = r.ok, !.ratio = r.ratio]
  /\ UNCHANGED <<pc, network, fetchPc, cache, cacheWrites, fetchLog, nodes, buttons,
                 updates, keyTimers, last, page, styleVars, resizeVars, navVars, measureVars>>

(***************************************************************************)
(* Start-up alone: every transport behaviour, every initial content of the *)
(* icon targets.                                                           *)
(***************************************************************************)
\* what does not depend on the page: the state at module load
InitCommon ==
  /\ pc = "init"
  /\ fetchPc = [k \in Keys |-> "notStarted"]
  /\ cache = [k \in Keys |-> <<>>]
  /\ cacheWrites = [k \in Keys |-> 0]
  /\ fetchLog = [k \in Keys |-> NoFetches]
  /\ updates = NoUpdates
  /\ last = NoEvent
  /\ lastPass = [ran |-> FALSE, parseable |-> {}, written |-> {}, raised |-> FALSE]
  /\ viewport = 1
  /\ resizeScheduled = FALSE
  /\ resizeFrames = 0
  /\ resizeLog = [events |-> 0, served |-> 0, runs |-> 0]
  /\ focus = "none"
  /\ navLast = NoNav
  /\ waited = <<>>
  /\ measured = NoMeasure

\* what follows from the buttons of the page
InitButtonState ==
  /\ keyTimers = [b \in Buttons |-> 0]
  /\ labels = [b \in Buttons |-> <<"text">>]
  /\ styleCache = [b \in Buttons |-> <<>>]
  /\ minSide = [b \in Buttons |-> 0]

\* a page whose style sheet gives every button parseable colours
PlainPage ==
  [b \in Buttons |-> Placed("A", FALSE, Black, White, White, 4, 2)]

InitLoad ==
  /\ InitCommon
  /\ calc = NoCalc
  /\ network = AnyNetwork
  /\ \E h1, h4 \in {EmptyMarkup, StaleMarkup}, i1, i4 \in {"add", "placeholder"} :
       /\ i1 = "placeholder" => i4 = "placeholder"
       /\ nodes = [n \in NodeIds |->
                  CASE n = "n1" -> Node(i1, FALSE, FALSE, h1)
                    [] n = "n2" -> Node(i1, TRUE, TRUE, StaleMarkup)
                    [] n = "n3" -> Node("toggle", TRUE, FALSE, StaleMarkup)
                    [] n = "n4" -> Node(i4, TRUE, FALSE, h4)]
  /\ buttons = [b \in {"b1", "b2"} |-> InitialButton(b = "b1", FALSE, FALSE)]
  /\ InitButtonState
  /\ page = PlainPage

NextLoad ==
  \/ StartPreload
  \/ \E k \in Keys : PrimaryResponse(k)
  \/ \E k \in Keys : PrimaryBody(k)
  \/ \E k \in Keys : FallbackResponse(k)
  \/ \E k \in Keys : FallbackBody(k)
  \/ InjectAfterPreload
  \/ AnimationFrame
  \/ SetupIconInjection
  \/ ApplyInitialStyles
  \/ SetupUpdateManager
  \/ BindHandlers

SpecLoad == InitLoad /\ [][NextLoad]_vars

(***************************************************************************)
(* Activation: start-up, then click, pointer, touch and key events in any  *)
(* order.  The buttons of the page start in every combination of toggle /  *)
(* disabled / pressed.                                                     *)
(***************************************************************************)
Init ==
  /\ InitCommon
  /\ calc = NoCalc
  /\ network = ScriptedNetwork
  /\ nodes = [n \in NodeIds |->
                CASE n = "n1" -> Node("add", FALSE, FALSE, EmptyMarkup)
                  [] n = "n2" -> Node("add", TRUE, TRUE, StaleMarkup)
                  [] n = "n3" -> Node("toggle", TRUE, FALSE, StaleMarkup)
                  [] n = "n4" -> Node("placeholder", TRUE, FALSE, EmptyMarkup)]
  /\ buttons \in [{"b1", "b2"} -> {InitialButton(t, d, p) : t, d, p \in BOOLEAN}]
  /\ InitButtonState
  /\ page = PlainPage

Next ==
  \/ NextLoad
  \/ \E b \in Buttons : Click(b)
  \/ \E key \in ActivationKeys \cup {"a"}, b \in Buttons : Keydown(key, b)
  \/ \E b \in Buttons : KeydownTimeout(b)
  \/ \E b \in Buttons : MouseDown(b)
  \/ \E b \in Buttons : MouseUp(b)
  \/ \E b \in Buttons : MouseLeave(b)
  \/ \E b \in Buttons : TouchStart(b)
  \/ \E b \in Buttons : TouchEnd(b)
  \/ \E b \in Buttons : TouchCancel(b)
  \/ UpdateTimeout

Spec == Init /\ [][Next]_vars

(***************************************************************************)
(* Start-up on every markup of two buttons: toggle or not, pressed or not, *)
(* with or without icon, label and pressed-icon slot.                      *)
(***************************************************************************)
ChildLayouts ==
  { <<"icon", "label">>, <<"label", "icon">>, <<"label">>,
    <<"iconPressed", "icon", "label">>, <<"icon", "iconPressed", "label">> }

InitSetup ==
  /\ InitCommon
  /\ calc = NoCalc
  /\ network = ScriptedNetwork
  /\ nodes = [n \in NodeIds |->
                CASE n = "n1" -> Node("add", FALSE, FALSE, EmptyMarkup)
                  [] n = "n2" -> Node("add", TRUE, TRUE, StaleMarkup)
                  [] n = "n3" -> Node("toggle", TRUE, FALSE, StaleMarkup)
                  [] n = "n4" -> Node("placeholder", TRUE, FALSE, EmptyMarkup)]
  /\ buttons \in [{"b1", "b2"} ->
                    {[InitialButton(t, FALSE, p) EXCEPT !.children = c] :
                       t, p \in BOOLEAN, c \in ChildLayouts}]
  /\ InitButtonState
  /\ page = PlainPage

SpecSetup == InitSetup /\ [][NextLoad]_vars

(***************************************************************************)
(* Labels and sizes: start-up, then pointer events, resize events and the  *)
(* update passes they cause, on pages whose style sheet gives a button a   *)
(* background colour getRGB can or cannot parse.  The second button has a  *)
(* label, or it has none and is not rendered.                              *)
(***************************************************************************)
InitStyle ==
  /\ InitCommon
  /\ calc = NoCalc
  /\ network = ScriptedNetwork
  /\ nodes = [n \in NodeIds |->
                CASE n = "n1" -> Node("add", FALSE, FALSE, EmptyMarkup)
                  [] n = "n2" -> Node("add", TRUE, TRUE, StaleMarkup)
                  [] n = "n3" -> Node("toggle", TRUE, FALSE, StaleMarkup)
                  [] n = "n4" -> Node("placeholder", TRUE, FALSE, EmptyMarkup)]
  /\ \E c \in {<<"icon", "label">>, <<"icon">>} :
       /\ buttons = [b \in {"b1", "b2"} |->
                      IF b = "b1" THEN InitialButton(FALSE, FALSE, FALSE)
                      ELSE [InitialButton(FALSE, FALSE, FALSE) EXCEPT !.children = c]]
       /\ \E pg \in [{"b1", "b2"} ->
                       {Placed("A", FALSE, Black, idle, pressed, 4, 2) :
                          idle \in {White, Unparsed}, pressed \in {Grey, Unparsed}}] :
            /\ c = <<"icon">> => (pg["b2"].bgIdle = White /\ pg["b2"].bgPressed = Grey)
            /\ page = [pg EXCEPT !["b2"].hidden = (c = <<"icon">>)]
  /\ InitButtonState

NextStyle ==
  \/ NextLoad
  \/ \E b \in Buttons : MouseDown(b)
  \/ \E b \in Buttons : MouseUp(b)
  \/ \E vp \in 1..2 : Resize(vp)
  \/ UpdateTimeout

SpecStyle == InitStyle /\ [][NextStyle]_vars

(***************************************************************************)
(* Keyboard navigation: start-up, then navigation keys and focus changes,  *)
(* on every page of four buttons, each in one of two containers or in none *)
(* and each rendered or not.                                               *)
(***************************************************************************)
InitNav ==
  /\ InitCommon
  /\ calc = NoCalc
  /\ network = ScriptedNetwork
  /\ nodes = [n \in NodeIds |->
                CASE n = "n1" -> Node("add", FALSE, FALSE, EmptyMarkup)
                  [] n = "n2" -> Node("add", TRUE, TRUE, StaleMarkup)
                  [] n = "n3" -> Node("toggle", TRUE, FALSE, StaleMarkup)
                  [] n = "n4" -> Node("placeholder", TRUE, FALSE, EmptyMarkup)]
  /\ buttons = [b \in {"b1", "b2", "b3", "b4"} |-> InitialButton(FALSE, FALSE, FALSE)]
  /\ InitButtonState
  /\ page \in [Buttons -> {Placed(sc, h, Black, White, White, 4, 2) :
                              sc \in {"A", "B", "none"}, h \in BOOLEAN}]

NextNav ==
  \/ NextLoad
  \/ \E key \in NavKeys : NavKeydown(key)
  \/ \E f \in Buttons \cup {"none"} : FocusChange(f)

SpecNav == InitNav /\ [][NextNav]_vars

(***************************************************************************)
(* calculateContrast alone, on every pair of colours of a palette: the     *)
(* rgb() colours over four channel values, some of them again in rgba()    *)
(* and in hexadecimal notation, and colours getRGB rejects.                *)
(***************************************************************************)
Channels == {0, 10, 128, 255}

Palette ==
  {Rgb(r, g, b) : r, g, b \in Channels}
    \cup {[form |-> "rgba", ch |-> <<v, v, v>>] : v \in Channels}
    \cup {Hex(<<0, 0, 0, 0, 0, 0>>), Hex(<<15, 15, 15, 15, 15, 15>>),
          Hex(<<8, 0, 8, 0, 8, 0, 15, 15>>), Hex(<<15, 15, 15>>), Unparsed, Transparent}

InitContrast ==
  /\ InitCommon
  /\ network = ScriptedNetwork
  /\ nodes = [n \in NodeIds |->
                CASE n = "n1" -> Node("add", FALSE, FALSE, EmptyMarkup)
                  [] n = "n2" -> Node("add", TRUE, TRUE, StaleMarkup)
                  [] n = "n3" -> Node("toggle", TRUE, FALSE, StaleMarkup)
                  [] n = "n4" -> Node("placeholder", TRUE, FALSE, EmptyMarkup)]
  /\ buttons = [b \in {"b1", "b2"} |-> InitialButton(FALSE, FALSE, FALSE)]
  /\ InitButtonState
  /\ page = PlainPage
  /\ \E c1, c2 \in Palette : calc = [NoCalc EXCEPT !.color1 = c1, !.color2 = c2]

SpecContrast == InitContrast /\ [][CalculateContrast]_vars

(***************************************************************************)
(* Properties of the load cycle (checked under SpecLoad).                  *)
(***************************************************************************)
PreloadCompleted == pc \notin {"init", "preload", "failed"}

FetchSucceeded(k) == fetchLog[k].primary = "ok" /\ fetchLog[k].body = "ok"

FallbackSucceeded(k) == fetchLog[k].fb = "ok" /\ fetchLog[k].fbBody = "ok"

OwnMarkup(k) == AssetText(createIconMap[k].path)

FallbackMarkup == AssetText(getIconPath(fallbackIcon))

\* C1: once preloadAllIcons has completed, the value cached under every key is
\* the key's own markup if its primary fetch (response and body) succeeded,
\* else the fallback asset's markup if the fallback fetch succeeded, else ''.
C1_CacheAfterPreload ==
  \A k \in Keys :
    /\ PreloadCompleted => fetchPc[k] = "done"
    /\ fetchPc[k] = "done" =>
         cache[k] = << IF FetchSucceeded(k) THEN OwnMarkup(k)
                       ELSE IF FallbackSucceeded(k) THEN FallbackMarkup
                       ELSE EmptyMarkup >>

C1_Witness ==
  /\ PreloadCompleted
  /\ FetchSucceeded("add") /\ cache["add"] = <<OwnMarkup("add")>>
  /\ fetchLog["toggle"].primary = "throw" /\ FallbackSucceeded("toggle")
  /\ cache["toggle"] = <<FallbackMarkup>>
  /\ fetchLog["placeholder"].primary = "notok" /\ fetchLog["placeholder"].fb = "notok"
  /\ cache["placeholder"] = <<EmptyMarkup>>

\* C6: no loader ever rejects and start-up never fails in the load cycle,
\* whatever fetches and body reads fail; preloadAllIcons is complete only when
\* every key's attempt has settled, and then loadAndInject goes on to inject.
C6_PreloadNeverRejects ==
  /\ pc # "failed"
  /\ \A k \in Keys : fetchPc[k] # "rejected"
  /\ PreloadCompleted => \A k \in Keys : fetchPc[k] = "done"
  /\ (pc = "preload" /\ \A k \in Keys : fetchPc[k] = "done") => ENABLED InjectAfterPreload

C6_Witness ==
  /\ pc = "setupRaf1"
  /\ fetchLog["add"].body = "fail" /\ fetchLog["add"].fbBody = "fail"
  /\ fetchLog["placeholder"].primary = "throw" /\ fetchLog["placeholder"].fb = "throw"
  /\ fetchLog["toggle"].primary = "notok" /\ fetchLog["toggle"].fb = "notok"

\* C7: every primary fetch is started before any is awaited; a key's cache
\* entry exists exactly from the step in which its own attempt settles; and a
\* key whose attempt is pending can always take its next step, whatever the
\* positions of the other keys.
C7_FetchesIndependent ==
  /\ pc # "init" => \A k \in Keys : fetchPc[k] # "notStarted"
  /\ \A k \in Keys : (fetchPc[k] = "done") <=> (cache[k] # <<>>)
  /\ \A k \in Keys :
       fetchPc[k] \in {"fetching", "reading", "fbFetching", "fbReading"} =>
         ENABLED (PrimaryResponse(k) \/ PrimaryBody(k) \/ FallbackResponse(k)
                    \/ FallbackBody(k))

C7_Witness ==
  /\ fetchPc["toggle"] = "done" /\ cache["toggle"] # <<>>
  /\ fetchPc["add"] = "fetching"
  /\ fetchPc["placeholder"] = "fbFetching"

\* C8: the number of cache.set calls for a key is 0 until its attempt settles
\* and 1 from then on, for ever; when the load cycle is complete every key
\* has its one entry.
C8_WriteOnce ==
  /\ \A k \in Keys : cacheWrites[k] = IF fetchPc[k] = "done" THEN 1 ELSE 0
  /\ PreloadCompleted => \A k \in Keys : cacheWrites[k] = 1 /\ cache[k] # <<>>

C8_Witness ==
  /\ pc = "running"
  /\ \A k \in Keys : cacheWrites[k] = 1
  /\ fetchLog["add"].fbBody = "ok"
  /\ fetchLog["toggle"].body = "ok"

\* C9: the step in which loadAndInject leaves its await, and any step that
\* changes an icon target, is taken only when every key's attempt has settled
\* and its entry is written; the cache is written only while loadAndInject
\* is still awaiting preloadAllIcons.
C9_InjectAfterWrites ==
  [][ /\ (nodes' # nodes \/ (pc = "preload" /\ pc' # "preload")) =>
           /\ \A k \in Keys : fetchPc[k] = "done" /\ cacheWrites[k] = 1
           /\ cache' = cache
      /\ cache' # cache => pc' = "preload" ]_vars

C9_Witness ==
  /\ pc = "setupRaf1"
  /\ nodes["n1"].html = convertToCurrentColor(FallbackMarkup)
  /\ fetchLog["add"].body = "fail"
  /\ fetchLog["toggle"].fb = "throw"

NotSkipped(ns, n) == ~(ns[n].inToggle /\ ns[n].pressed)

\* C10 as stated: after injectAllIcons every target of a key other than the
\* excluded one that is not skipped holds the colour-normalized cached value,
\* also when that value is ''.
C10_Original ==
  PreloadCompleted =>
    \A key \in Keys \ {excludedIcon} :
      \A n \in querySelectorAll(nodes, createIconMap[key].selector) :
        NotSkipped(nodes, n) => nodes[n].html = convertToCurrentColor(cache[key][1])

\* C10 amended: injectAllIcons sets every target of a key other than the
\* excluded one that is not skipped to the colour-normalized cached value
\* when that value is not ''; when it is '' the target keeps its content.
C10_InjectedContent ==
  [][ (pc = "preload" /\ pc' = "setupRaf1") =>
        \A key \in Keys \ {excludedIcon} :
          \A n \in querySelectorAll(nodes, createIconMap[key].selector) :
            NotSkipped(nodes, n) =>
              nodes'[n].html = IF cache[key][1] # EmptyMarkup
                                 THEN convertToCurrentColor(cache[key][1])
                                 ELSE nodes[n].html ]_vars

C10_Witness ==
  /\ pc = "setupRaf1"
  /\ cache["add"] = <<OwnMarkup("add")>>
  /\ nodes["n1"].html = convertToCurrentColor(OwnMarkup("add"))
  /\ nodes["n1"].html # OwnMarkup("add")
  /\ nodes["n4"].icon = "placeholder"
  /\ cache["placeholder"] = <<EmptyMarkup>>
  /\ nodes["n4"].html = StaleMarkup

\* C11: injectAllIcons leaves unchanged every node that matches only the
\* excluded key's selector and every target inside a toggle button that
\* carries the pressed class; a selector without nodes raises no error and
\* the keys with nodes are injected all the same.
C11_SkippedUnchanged ==
  [][ (pc = "preload" /\ pc' # "preload") =>
        /\ \A n \in NodeIds :
             (nodes[n].icon = excludedIcon \/ (nodes[n].inToggle /\ nodes[n].pressed))
               => nodes'[n] = nodes[n]
        /\ pc' = "setupRaf1"
        /\ (\E z \in Keys : querySelectorAll(nodes, createIconMap[z].selector) = {}) =>
             \A key \in Keys \ {excludedIcon} :
               cache[key][1] # EmptyMarkup =>
                 \A n \in querySelectorAll(nodes, createIconMap[key].selector) :
                   NotSkipped(nodes, n) =>
                     nodes'[n].html = convertToCurrentColor(cache[key][1]) ]_vars

C11_Witness ==
  /\ pc = "setupRaf1"
  /\ querySelectorAll(nodes, createIconMap["add"].selector) = {}
  /\ nodes["n1"].icon = "placeholder"
  /\ cache["add"] = <<OwnMarkup("add")>>
  /\ cache["placeholder"] = <<FallbackMarkup>>
  /\ nodes["n1"].html = convertToCurrentColor(FallbackMarkup)
  /\ nodes["n2"].html = StaleMarkup
  /\ nodes["n3"].html = StaleMarkup

(***************************************************************************)
(* Properties of the listeners (checked under Spec).                       *)
(***************************************************************************)
ToggleStructureSetUp == pc \in {"styles", "observe", "bind", "running"}

\* C2: once setupIconInjection has run, every toggle button has aria-pressed
\* 'true' exactly when it carries the pressed class and 'false' exactly when
\* it does not, under every sequence of events; and aria-pressed is never
\* written on a button without the toggle class.
C2_AriaConsistent ==
  \A b \in Buttons :
    /\ (ToggleStructureSetUp /\ buttons[b].toggle) =>
         buttons[b].ariaPressed = IF buttons[b].pressed THEN "true" ELSE "false"
    /\ ~buttons[b].toggle => ~buttons[b].ariaWritten /\ buttons[b].ariaPressed = "absent"

C2_Witness ==
  /\ pc = "running"
  /\ buttons["b1"].toggle /\ buttons["b1"].pressed /\ buttons["b1"].ariaPressed = "true"
  /\ last.kind = "click" /\ last.button = "b1" /\ ~last.prePressed
  /\ ~buttons["b2"].toggle /\ buttons["b2"].pressed /\ keyTimers["b2"] > 0

\* C3: a click in a disabled button is stopped by the capture-phase listener,
\* the toggle listener is not entered, the pressed class and aria-pressed are
\* what they were, and no scheduleUpdate call results.
C3_DisabledClickSuppressed ==
  (last.kind = "click" /\ buttons[last.button].disabled) =>
    /\ last.blocked /\ last.ran = 0
    /\ buttons[last.button].pressed = last.prePressed
    /\ buttons[last.button].ariaPressed = last.preAria
    /\ last.sched = 0 /\ last.obs = 0

C3_Witness ==
  /\ last.kind = "click" /\ buttons[last.button].disabled
  /\ buttons[last.button].toggle /\ buttons[last.button].isToggleButton
  /\ buttons[last.button].pressed

\* C4: a click on a non-disabled toggle button flips the pressed class once,
\* sets aria-pressed to match, and the listener calls scheduleUpdate once.
C4_ToggleClickFlips ==
  (last.kind = "click" /\ buttons[last.button].toggle /\ ~buttons[last.button].disabled) =>
    /\ last.ran = 1
    /\ buttons[last.button].pressed = ~last.prePressed
    /\ buttons[last.button].ariaPressed = IF last.prePressed THEN "false" ELSE "true"
    /\ last.sched = 1

C4_Witness ==
  /\ last.kind = "click" /\ buttons[last.button].toggle /\ ~buttons[last.button].disabled
  /\ last.prePressed /\ ~buttons[last.button].pressed
  /\ updates.raf1 >= 1

\* C5: when a click on a non-disabled toggle button is followed by a Space,
\* Enter or NumpadEnter keydown on it, the keydown dispatches one click, the
\* toggle listener runs once, and pressed and aria-pressed are back at their
\* values before the click.
C5_ClickThenKeyRestores ==
  (/\ last.kind = "keydown" /\ last.key \in ActivationKeys /\ last.afterClick
   /\ buttons[last.button].toggle /\ ~buttons[last.button].disabled) =>
    /\ last.clicks = 1 /\ last.ran = 1
    /\ buttons[last.button].pressed = last.origPressed
    /\ buttons[last.button].ariaPressed = last.origAria

C5_Witness ==
  /\ last.kind = "keydown" /\ last.key = "Enter" /\ last.afterClick
  /\ buttons[last.button].toggle /\ ~buttons[last.button].disabled
  /\ last.origPressed /\ buttons[last.button].pressed
  /\ ~last.prePressed

ReleaseKinds == {"mouseup", "mouseleave", "touchend", "touchcancel"}

DownKinds == {"mousedown", "touchstart"}

\* C12: a mouseup, mouseleave, touchend or touchcancel on a button without
\* the toggle class that carries pressed removes the class and its handler
\* calls scheduleUpdate exactly once; on a button that is not pressed, or a
\* toggle button, it changes nothing and no scheduleUpdate call results.  A
\* mousedown or touchstart adds pressed exactly when the button is neither
\* disabled nor a toggle button.
C12_PointerRelease ==
  LET btn == buttons[last.button]
  IN  /\ last.kind \in ReleaseKinds =>
           IF last.prePressed /\ ~btn.toggle
             THEN ~btn.pressed /\ last.sched = 1
             ELSE /\ btn.pressed = last.prePressed
                  /\ btn.ariaPressed = last.preAria
                  /\ last.sched = 0 /\ last.obs = 0
      /\ last.kind \in DownKinds =>
           IF ~btn.disabled /\ ~btn.toggle
             THEN btn.pressed /\ last.sched = 0
             ELSE btn.pressed = last.prePressed /\ last.sched = 0 /\ last.obs = 0

C12_Witness ==
  /\ last.kind = "touchcancel" /\ last.prePressed
  /\ ~buttons[last.button].toggle /\ buttons[last.button].disabled
  /\ ~buttons[last.button].pressed /\ last.sched = 1
  /\ updates.raf1 = 2

Momentary(b) == ~buttons[b].toggle /\ ~buttons[b].disabled

C13_AfterEvent ==
  LET b == last.button
  IN  /\ (last.kind = "keydown" /\ last.key \in ActivationKeys /\ Momentary(b)) =>
           buttons[b].pressed /\ last.timers = 1 /\ last.clicks = 0
      /\ last.kind = "keytimeout" =>
           ~buttons[b].pressed /\ last.clicks = 1 /\ last.timers = 0
      /\ (last.kind \in ReleaseKinds /\ Momentary(b)) => ~buttons[b].pressed

\* C13: a Space / Enter keydown on a non-disabled button without the toggle
\* class adds pressed at once and sets one timeout; each timeout that fires
\* removes pressed and dispatches exactly one click, so the clicks are as
\* many as the keydowns; under every interleaving with further keydowns and
\* pointer / touch events the class is absent after each timer firing and
\* each pointer release, and only a keydown, mousedown or touchstart on the
\* button puts it back.
C13_KeyPressRelease ==
  [][ /\ C13_AfterEvent'
      /\ \A b \in Buttons :
           /\ keyTimers'[b] = keyTimers[b] + 1 =>
                last'.kind = "keydown" /\ last'.button = b /\ last'.clicks = 0
           /\ keyTimers'[b] = keyTimers[b] - 1 =>
                last'.kind = "keytimeout" /\ last'.button = b /\ last'.clicks = 1
           /\ keyTimers'[b] \in {keyTimers[b] - 1, keyTimers[b], keyTimers[b] + 1}
           /\ (~buttons[b].toggle /\ buttons'[b].pressed /\ ~buttons[b].pressed) =>
                /\ last'.button = b
                /\ last'.kind \in DownKinds \cup {"keydown"} ]_vars

C13_Witness ==
  /\ last.kind = "keytimeout" /\ Momentary(last.button)
  /\ ~last.prePressed /\ ~buttons[last.button].pressed
  /\ last.clicks = 1 /\ last.ran = 1
  /\ keyTimers[last.button] = 0

(***************************************************************************)
(* Properties of keyboard navigation (checked under SpecNav).              *)
(***************************************************************************)
Visible == visibleButtons(page)

\* the showcase of the button the focus was on when the key was pressed
FromShowcase == page[navLast.from].showcase

OtherShowcaseVisible ==
  \E i \in DOMAIN Visible : page[Visible[i]].showcase # FromShowcase

\* the d-th visible button after (d > 0) or before (d < 0) the one focused
Around(d) ==
  Visible[((IndexOf(Visible, navLast.from) - 1 + d + Len(Visible)) % Len(Visible)) + 1]

\* C14: ArrowDown pressed with the focus on a visible button, while some
\* visible button is in another showcase, moves the focus to the nearest
\* following visible button, circularly, whose showcase differs; the button
\* focused afterwards is never in the showcase of the one focused before.
C14_ArrowDown ==
  (navLast.key = "ArrowDown" /\ navLast.from # "none" /\ OtherShowcaseVisible) =>
    /\ focus # "none"
    /\ page[focus].showcase # FromShowcase
    /\ \E d \in 1..(Len(Visible) - 1) :
         /\ focus = Around(d)
         /\ \A e \in 1..(d - 1) : page[Around(e)].showcase = FromShowcase

C14_Witness ==
  /\ navLast.key = "ArrowDown" /\ navLast.from = "b4"
  /\ page["b4"].showcase = "B" /\ page["b1"].showcase = "B" /\ ~page["b1"].hidden
  /\ page["b2"].showcase = "A" /\ page["b2"].hidden
  /\ page["b3"].showcase = "none"
  /\ focus = "b3"

\* C15: ArrowUp pressed with the focus on a visible button finds the nearest
\* preceding visible button, circularly, whose showcase differs and moves the
\* focus to the first visible button, in list order, of that showcase; when
\* every visible button is in the showcase of the focused one the focus stays.
C15_ArrowUp ==
  (navLast.key = "ArrowUp" /\ navLast.from # "none") =>
    IF ~OtherShowcaseVisible
      THEN focus = navLast.from
      ELSE \E d \in 1..(Len(Visible) - 1) :
             /\ page[Around(-d)].showcase # FromShowcase
             /\ \A e \in 1..(d - 1) : page[Around(-e)].showcase = FromShowcase
             /\ focus # "none"
             /\ page[focus].showcase = page[Around(-d)].showcase
             /\ \A j \in 1..(IndexOf(Visible, focus) - 1) :
                  page[Visible[j]].showcase # page[focus].showcase

C15_Witness ==
  /\ navLast.key = "ArrowUp" /\ navLast.from = "b4"
  /\ page["b4"].showcase = "B"
  /\ page["b1"].showcase = "A" /\ page["b1"].hidden
  /\ page["b2"].showcase = "A" /\ ~page["b2"].hidden
  /\ page["b3"].showcase = "A" /\ ~page["b3"].hidden
  /\ focus = "b2"

\* C16: with n visible buttons and the focus on the i-th (from 0), ArrowRight
\* focuses (i + 1) mod n, ArrowLeft (i - 1) mod n, Home 0 and End n - 1; a
\* hidden button never gets the focus; ArrowRight then ArrowLeft is back at i.
C16_LinearKeys ==
  /\ focus # "none" => ~page[focus].hidden
  /\ navLast.from # "none" =>
       /\ navLast.key = "ArrowRight" => focus = Around(1)
       /\ navLast.key = "ArrowLeft" => focus = Around(-1)
       /\ navLast.key = "Home" => focus = Visible[1]
       /\ navLast.key = "End" => focus = Visible[Len(Visible)]
       /\ (navLast.key = "ArrowLeft" /\ navLast.afterRight) => focus = navLast.orig

C16_Witness ==
  /\ navLast.key = "ArrowLeft" /\ navLast.afterRight
  /\ navLast.orig = "b4" /\ navLast.from = "b2" /\ focus = "b4"
  /\ page["b1"].hidden /\ page["b3"].hidden

\* C17 as stated: a navigation key pressed while no button has the focus
\* moves the focus to the first visible button, whichever buttons are hidden.
C17_Original ==
  (navLast.key \in NavKeys /\ navLast.from = "none" /\ Len(Visible) > 0) =>
    focus = Visible[1]

(***************************************************************************)
(* Properties of the label and resize passes (checked under SpecStyle).    *)
(***************************************************************************)
\* C18 as stated: an updateButtonLabels pass never raises to its caller, and
\* it writes the label of every labelled button whose colours parse, also
\* when the colours of another button do not.
C18_Original ==
  lastPass.ran => ~lastPass.raised /\ lastPass.parseable \subseteq lastPass.written

\* C19 as stated: whatever number of resize events arrives between two
\* animation frames, exactly one frame callback is pending for them, and the
\* frame that serves them runs applyDynamicStyles exactly once.
C19_Original ==
  /\ resizeFrames <= 1 /\ resizeLog.runs <= 1
  /\ resizeLog.events >= 1 => resizeFrames = 1
  /\ resizeLog.served >= 1 => resizeLog.runs = 1

(***************************************************************************)
(* Properties of setupIconInjection (checked under SpecSetup).             *)
(***************************************************************************)
Count(children, x) == Cardinality({i \in DOMAIN children : children[i] = x})

\* a pressed-icon slot is the child right before the first default icon slot
SlotBeforeIcon(children) ==
  \E i \in DOMAIN children :
    /\ children[i] = "iconPressed"
    /\ Count(children, "icon") > 0 =>
         /\ i < Len(children)
         /\ children[i + 1] = "icon"
         /\ \A j \in 1..(i - 1) : children[j] # "icon"

\* what C20 says of everything but the place of the slot
MarkedAsToggle(before, after) ==
  /\ Count(after.children, "iconPressed") = Max(1, Count(before.children, "iconPressed"))
  /\ setupIconInjection(after) = after
  /\ after.isToggleButton
  /\ after.ariaPressed = IF before.pressed THEN "true" ELSE "false"
  /\ after.pressed = before.pressed

ValidColor(color) ==
  color.form \in {"rgb", "rgba"} \/ (color.form = "hex" /\ Len(color.ch) >= 6)

\* C21: for two valid colours calculateContrast returns a ratio that is the
\* same with the colours exchanged, lies in [1, 21], is 1 when the colours
\* have the same channels, and is 21 for black against white.
C21_ContrastRange ==
  (calc.done /\ ValidColor(calc.color1) /\ ValidColor(calc.color2)) =>
    LET swapped == calculateContrast(calc.color2, calc.color1)
    IN  /\ calc.ok /\ swapped.ok
        /\ calc.ratio = swapped.ratio
        /\ calc.ratio.den <= calc.ratio.num
        /\ calc.ratio.num <= 21 * calc.ratio.den
        /\ getRGB(calc.color1).rgb = getRGB(calc.color2).rgb =>
             calc.ratio.num = calc.ratio.den
        /\ ({getRGB(calc.color1).rgb, getRGB(calc.color2).rgb}
               = {<<0, 0, 0>>, <<255, 255, 255>>}) =>
             calc.ratio.num = 21 * calc.ratio.den

C21_Witness ==
  /\ calc.done /\ calc.ok
  /\ calc.color1 = Hex(<<0, 0, 0, 0, 0, 0>>)
  /\ calc.color2 = Rgb(255, 255, 255)
  /\ calc.ratio.num = 21 * calc.ratio.den

(***************************************************************************)
(* Start-up order.                                                         *)
(***************************************************************************)
\* the order of ButtonSystem.init and initializeApp, as steps of pc
StartupSteps ==
  { <<"init", "preload">>, <<"preload", "setupRaf1">>, <<"setupRaf1", "setupRaf2">>,
    <<"setupRaf2", "setupTimer">>, <<"setupTimer", "styles">>, <<"styles", "observe">>,
    <<"observe", "bind">>, <<"bind", "running">>,
    <<"preload", "failed">>, <<"styles", "failed">> }

\* a listener of initializeApp ran in this step
HandlerRan ==
  \/ last' # last
  \/ keyTimers' # keyTimers
  \/ resizeLog'.events > resizeLog.events
  \/ navLast' # navLast /\ navLast' # NoNav

\* C22: start-up goes strictly through icon loading and injection, toggle
\* structure setup, initial styling, observer setup and then the binding of
\* the handlers, each step starting only when the one before has finished:
\* the icon targets are written only while the loader runs, the buttons are
\* restructured only by the setup step, the first sizes and labels are
\* written only by the styling step; and no click, pointer, touch, keyboard
\* or resize handler runs before the observer is installed and every toggle
\* button is marked and carries its aria-pressed state.
C22_StartupOrder ==
  [][ /\ pc' # pc => <<pc, pc'>> \in StartupSteps
      /\ nodes' # nodes => pc = "preload"
      /\ (buttons' # buttons /\ pc # "running") => (pc = "setupTimer" /\ pc' = "styles")
      /\ (styleVars' # styleVars /\ pc # "running") => pc = "styles"
      /\ HandlerRan =>
            /\ pc = "running"
            /\ \A b \in Buttons :
                  buttons[b].toggle =>
                    /\ buttons[b].isToggleButton
                    /\ buttons[b].ariaPressed \in {"true", "false"}
    ]_vars

C22_Witness ==
  /\ pc = "running"
  /\ last.kind = "click"
  /\ buttons[last.button].toggle
  /\ buttons[last.button].isToggleButton
  /\ last.ran = 1

(***************************************************************************)
(* Failure of start-up.                                                    *)
(***************************************************************************)
\* C23: when a step of ButtonSystem.init raises (the icon step rejects, or
\* the label update inside the initial applyDynamicStyles throws),
\* initializeApp throws the error again: start-up ends there, no listener is
\* bound, and nothing runs afterwards.
C23_InitFailureRaised ==
  [][ /\ (pc = "styles" /\ lastPass'.raised) => pc' = "failed"
      /\ (pc = "preload" /\ pc' # pc
            /\ ~(preloadResolved /\ injectAllIconsReturns(nodes, cache))) => pc' = "failed"
      /\ pc' = "failed" => (~handlersBound' /\ last' = NoEvent /\ resizeLog'.events = 0)
      /\ pc # "failed"
    ]_vars

C23_Witness ==
  /\ pc = "failed"
  /\ lastPass.ran /\ lastPass.raised
  /\ ~handlersBound
  /\ last = NoEvent

(***************************************************************************)
(* Geometry: when applyDynamicStyles measures and what it writes.          *)
(***************************************************************************)
\* waitForRenderCompletion: two animation frames, then a timeout of 16 ms
renderWait == <<"frame", "frame", "timeout">>

\* C24 as stated: every applyDynamicStyles call, at start-up or after a
\* resize event, measures only when a whole render wait (two animation
\* frames and the fixed delay) has passed since the step or event that led
\* to it.
C24_Original ==
  measured.trigger # "none" => measured.waited = renderWait

\* this step is one applyDynamicStyles call
RunStep == pc = "styles" \/ (resizeFrames > 0 /\ resizeFrames' = 0)

\* the cached minSide of a button, 0 when it has no entry
Cached(b) == IF styleCache[b] = <<>> THEN 0 ELSE styleCache[b][1]

\* C25: an applyDynamicStyles call writes --min-side and the cache entry of
\* a button exactly when the measured minSide differs from the cached one
\* (no entry counting as 0) and writes neither when they are equal; no other
\* step changes the cache or the property; so every button with a cache
\* entry has --min-side equal to the cached minSide.
C25_CacheMatchesProperty ==
  [][ /\ RunStep =>
            \A b \in Buttons :
              IF measuredMinSide(page, viewport, b) # Cached(b)
                THEN /\ b \in measured'.wrote
                     /\ minSide'[b] = measuredMinSide(page, viewport, b)
                     /\ styleCache'[b] = <<measuredMinSide(page, viewport, b)>>
                ELSE /\ b \notin measured'.wrote
                     /\ minSide'[b] = minSide[b]
                     /\ styleCache'[b] = styleCache[b]
      /\ ~RunStep => UNCHANGED <<styleCache, minSide, measured>>
      /\ \A b \in Buttons : styleCache'[b] # <<>> => minSide'[b] = styleCache'[b][1]
    ]_vars

C25_Witness ==
  /\ measured.trigger = "resize"
  /\ measured.wrote = {"b1"}
  /\ styleCache["b1"] = <<4>> /\ minSide["b1"] = 4
  /\ styleCache["b2"] = <<>> /\ page["b2"].hidden

(***************************************************************************)
(* Scheduled label updates.                                                *)
(***************************************************************************)
\* render waits of scheduleUpdate calls that have not reached their
\* updateButtonLabels call yet
Pending(u) == u.raf1 + u.raf2 + u.timer

\* this step is the updateButtonLabels call at the end of one scheduleUpdate
ScheduledRun == updates'.timer = updates.timer - 1 /\ updates'.raf2 = updates.raf2

\* this step is the task of an input event or of a keydown timeout
EventTask == updates'.raf1 > updates.raf1 \/ last' # last \/ keyTimers' # keyTimers

\* every scheduleUpdate call starts a wait of its own, every wait goes
\* through two frames and the timeout, and every timeout is one
\* updateButtonLabels call
OneRunPerCall ==
  /\ EventTask =>
        /\ updates' = [updates EXCEPT !.raf1 = @ + last'.sched + last'.obs]
        /\ labels' = labels
  /\ ScheduledRun =>
        /\ updates'.raf1 = updates.raf1
        /\ lastPass'.ran
        /\ labels' = updateButtonLabels(buttons, page, labels).labels
        /\ UNCHANGED <<buttons, page>>
  /\ (~EventTask /\ ~ScheduledRun /\ updates' # updates) =>
        updates' = [raf1 |-> 0, raf2 |-> updates.raf1,
                    timer |-> updates.timer + updates.raf2]
  /\ (labels' # labels) => (ScheduledRun \/ RunStep)

\* the label of b shows the contrast ratio of the colours b has now
ShowsCurrentRatio(bs, lb, b) ==
  LET contrast == calculateContrast(page[b].color, backgroundColor(bs, page, b))
  IN  (hasLabel(bs[b]) /\ contrast.ok) => lb[b] = <<Head(lb[b]), toFixed2(contrast.ratio)>>

\* C26 as stated: each scheduleUpdate call leads to exactly one
\* updateButtonLabels call, made after the call's own render wait, so k
\* overlapping calls give k calls of updateButtonLabels; and after the last
\* of them every label shows the ratio of the state its button is in.
C26_Original ==
  [][ /\ OneRunPerCall
      /\ (ScheduledRun /\ Pending(updates') = 0) =>
            \A b \in Buttons : ShowsCurrentRatio(buttons', labels', b)
    ]_vars

(***************************************************************************)
(* Disabled buttons.                                                       *)
(***************************************************************************)
\* the input events: every task but the timeout of the keydown listener
InputKinds ==
  {"click", "keydown", "mousedown", "mouseup", "mouseleave", "touchstart",
   "touchend", "touchcancel"}

\* C27 as stated: no click, mousedown, mouseup, mouseleave, touchstart,
\* touchend, touchcancel or keydown changes the pressed class or aria-pressed
\* of a button that has aria-disabled="true", pressed or not.
C27_Original ==
  last.kind \in InputKinds =>
    (buttons[last.button].disabled =>
       /\ buttons[last.button].pressed = last.prePressed
       /\ buttons[last.button].ariaPressed = last.preAria)

\* C27, amended: on a button that has aria-disabled="true" no input event
\* changes aria-pressed, and no click, mousedown, touchstart or keydown
\* changes the pressed class; a mouseup, mouseleave, touchend or touchcancel
\* removes the pressed class from a disabled button that carries it and has
\* not the toggle class, and changes nothing otherwise.
C27_DisabledInput ==
  LET btn == buttons[last.button]
  IN  (last.kind \in InputKinds /\ btn.disabled) =>
        /\ btn.ariaPressed = last.preAria
        /\ IF last.kind \in ReleaseKinds /\ last.prePressed /\ ~btn.toggle
             THEN ~btn.pressed
             ELSE btn.pressed = last.prePressed

C27_Witness ==
  /\ last.kind = "mouseup"
  /\ buttons[last.button].disabled /\ ~buttons[last.button].toggle
  /\ last.prePressed /\ ~buttons[last.button].pressed
  /\ last.preAria = buttons[last.button].ariaPressed

(***************************************************************************)
(* The resize flag and the observer.                                       *)
(***************************************************************************)
\* C28 as stated: the resize throttle does not lock up: once every frame
\* callback requested by the resize listener has run, resizeScheduled is
\* false again, also when an applyDynamicStyles call ended with a colour
\* parse error from its label update.
C28_Original == resizeFrames = 0 => ~resizeScheduled

\* the frames and timeouts the pending render waits still need
Rank(u) == 3 * u.raf1 + 2 * u.raf2 + u.timer

\* this step is an animation frame that moves pending render waits on
FrameStep ==
  /\ updates.raf1 + updates.raf2 > 0
  /\ updates'.raf2 = updates.raf1
  /\ updates'.timer = updates.timer + updates.raf2

\* C29: label updates do not feed back: the label writes of
\* updateButtonLabels and the --min-side writes of applyDynamicStyles are no
\* records the observer counts, so an updateButtonLabels call or an
\* applyDynamicStyles call starts no render wait; every step that is not an
\* input event (a start-up step, an animation frame, the timeout of a render
\* wait) leaves the pending waits alone or brings them nearer to their end,
\* so after the last input event finitely many updateButtonLabels calls
\* follow and then no update is pending.
C29_NoFeedback ==
  [][ /\ ScheduledRun => updates' = [updates EXCEPT !.timer = @ - 1]
      /\ RunStep =>
            updates' \in {updates, [raf1 |-> 0, raf2 |-> updates.raf1,
                                    timer |-> updates.timer + updates.raf2]}
      /\ (ScheduledRun \/ RunStep \/ FrameStep \/ pc' # pc) =>
            (Rank(updates') < Rank(updates) \/ updates' = updates)
    ]_vars

C29_Witness ==
  /\ last.kind = "mouseup"
  /\ measured.trigger = "resize" /\ measured.wrote # {}
  /\ lastPass.ran /\ lastPass.written # {} /\ ~lastPass.raised
  /\ Pending(updates) = 0 /\ resizeFrames = 0

====
